---- MODULE Spec2Model ----
(***************************************************************************)
(* Model of the NetworkManager D-Bus client (nm-dbus/src/lib.rs).          *)
(*                                                                         *)
(* The client is stateless: every operation navigates the remote object    *)
(* graph (manager -> devices -> access points / IPv4 configuration) with   *)
(* fallible calls.  The remote graph is the state the operations read; an  *)
(* operation leaves behind its return value and the remote calls it made.  *)
(***************************************************************************)
EXTENDS Integers, Sequences, FiniteSets, Bags

VARIABLES
    nm_devices,     \* reply of Manager.GetDevices: Result<Vec<device path>>
    device,         \* device path -> Device / Device.Wireless object
    access_point,   \* access-point path -> AccessPoint object
    ip4_config,     \* IPv4-configuration path -> IP4Config object
    call,           \* the client operation that ran last, with its argument
    result,         \* what that operation returned
    issued,         \* the remote calls that operation issued, in order
    nmcli,          \* what running the external helper `nmcli` does
    nm_client,      \* the widget's Arc<Mutex<Option<NetworkManagerClient>>>: its
                    \* content and whether a guard is out
    tasks,          \* the bag of tasks the widget spawned that have not ended
    inbox,          \* the WiFiMsg inputs not handled yet, oldest first
    wifi,           \* the fields of the WiFi component
    popover,        \* what the popover shows
    in_progress     \* a get_active_connection read by read: the replies it
                    \* has so far, and what the service held since it began

widget_vars == <<nm_client, tasks, inbox, wifi, popover>>

vars == <<nm_devices, device, access_point, ip4_config, call, result, issued, nmcli,
          nm_client, tasks, inbox, wifi, popover, in_progress>>

(***************************************************************************)
(* Bounds of the model.                                                    *)
(***************************************************************************)
\* devices in the manager's list
MaxDevices == 2
\* access points listed by all devices together
MaxAps == 3

(***************************************************************************)
(* zbus::Result.  A remote reply is [ok, v]; a value returned by the       *)
(* client is [ok, err, v] where err names the call whose error `?`         *)
(* propagated and v is a sequence (empty on error, Option as 0/1 element). *)
(***************************************************************************)
ROk(v) == [ok |-> TRUE, v |-> v]
RErrNum == [ok |-> FALSE, v |-> 0]
RErrStr == [ok |-> FALSE, v |-> ""]
RErrSeq == [ok |-> FALSE, v |-> << >>]

Ok(v) == [ok |-> TRUE, err |-> "", v |-> v]
Err(e) == [ok |-> FALSE, err |-> e, v |-> << >>]

\* one remote call: method or property m on the object at path p
Call(m, p) == [m |-> m, p |-> p]

\* the object path that stands for "no object"
Sentinel == "/"

\* NetworkManager device type of a WiFi device
WifiDeviceType == 2

(***************************************************************************)
(* Access point decoding.                                                  *)
(***************************************************************************)
\* String::from_utf8_lossy on bytes that are ASCII or 0xFF: an ASCII byte is
\* its own character, an invalid byte becomes U+FFFD.
from_utf8_lossy(bytes) ==
    [i \in 1..Len(bytes) |-> IF bytes[i] < 128 THEN bytes[i] ELSE 65533]

\* reads of the root object find no AccessPoint interface
NoAccessPoint ==
    [ssid |-> RErrSeq, strength |-> RErrNum, wpa_flags |-> RErrNum, rsn_flags |-> RErrNum]

AccessPointAt(ap_path) ==
    IF ap_path \in DOMAIN access_point THEN access_point[ap_path] ELSE NoAccessPoint

\* Result::unwrap_or(0) on a flags read
unwrap_or_0(r) == IF r.ok THEN r.v ELSE 0

is_secured_and(wpa_flags, rsn_flags) == wpa_flags # 0 /\ rsn_flags # 0

is_secured(wpa_flags, rsn_flags) == wpa_flags # 0 \/ rsn_flags # 0

\* the remote reads parse_access_point makes, in order
parse_access_point_calls(ap_path) ==
    LET o == AccessPointAt(ap_path) IN
    IF ~o.ssid.ok THEN <<Call("Ssid", ap_path)>>
    ELSE IF ~o.strength.ok THEN <<Call("Ssid", ap_path), Call("Strength", ap_path)>>
    ELSE <<Call("Ssid", ap_path), Call("Strength", ap_path),
           Call("WpaFlags", ap_path), Call("RsnFlags", ap_path)>>

parse_access_point_strict(ap_path) ==
    LET o == AccessPointAt(ap_path) IN
    IF ~o.ssid.ok THEN Err("Ssid")
    ELSE IF ~o.strength.ok THEN Err("Strength")
    ELSE IF ~o.wpa_flags.ok THEN Err("WpaFlags")
    ELSE IF ~o.rsn_flags.ok THEN Err("RsnFlags")
    ELSE Ok(<<[ssid |-> from_utf8_lossy(o.ssid.v),
               strength |-> o.strength.v,
               is_secured |-> is_secured(o.wpa_flags.v, o.rsn_flags.v),
               path |-> ap_path]>>)

parse_access_point(ap_path) ==
    LET o == AccessPointAt(ap_path) IN
    IF ~o.ssid.ok THEN Err("Ssid")
    ELSE IF ~o.strength.ok THEN Err("Strength")
    ELSE Ok(<<[ssid |-> from_utf8_lossy(o.ssid.v),
               strength |-> o.strength.v,
               is_secured |-> is_secured(unwrap_or_0(o.wpa_flags), unwrap_or_0(o.rsn_flags)),
               path |-> ap_path]>>)

(***************************************************************************)
(* scan_networks: merge by SSID keeping the strongest, then sort.          *)
(***************************************************************************)
\* position of the first record with this SSID, 0 if there is none
FindSsid(all_access_points, ssid) ==
    LET hits == {i \in 1..Len(all_access_points) : all_access_points[i].ssid = ssid} IN
    IF hits = {} THEN 0 ELSE CHOOSE i \in hits : \A k \in hits : i <= k

MergeKeepFirst(all_access_points, ap) ==
    IF FindSsid(all_access_points, ap.ssid) # 0 THEN all_access_points
    ELSE Append(all_access_points, ap)

MergeKeepLatest(all_access_points, ap) ==
    LET i == FindSsid(all_access_points, ap.ssid) IN
    IF i # 0
    THEN IF ap.strength >= all_access_points[i].strength
         THEN [all_access_points EXCEPT ![i] = ap]
         ELSE all_access_points
    ELSE Append(all_access_points, ap)

MergeMoveToEnd(all_access_points, ap) ==
    LET i == FindSsid(all_access_points, ap.ssid) IN
    IF i # 0
    THEN IF ap.strength > all_access_points[i].strength
         THEN Append(SubSeq(all_access_points, 1, i - 1)
                        \o SubSeq(all_access_points, i + 1, Len(all_access_points)), ap)
         ELSE all_access_points
    ELSE Append(all_access_points, ap)

MergeUpdateStrength(all_access_points, ap) ==
    LET i == FindSsid(all_access_points, ap.ssid) IN
    IF i # 0
    THEN IF ap.strength > all_access_points[i].strength
         THEN [all_access_points EXCEPT ![i].strength = ap.strength]
         ELSE all_access_points
    ELSE Append(all_access_points, ap)

MergeReplaceAlways(all_access_points, ap) ==
    LET i == FindSsid(all_access_points, ap.ssid) IN
    IF i # 0 THEN [all_access_points EXCEPT ![i] = ap]
    ELSE Append(all_access_points, ap)

\* lines 171-180: replace a weaker record of the same SSID, else push
Merge(all_access_points, ap) ==
    LET i == FindSsid(all_access_points, ap.ssid) IN
    IF i # 0
    THEN IF ap.strength > all_access_points[i].strength
         THEN [all_access_points EXCEPT ![i] = ap]
         ELSE all_access_points
    ELSE Append(all_access_points, ap)

RECURSIVE MergeAccessPointsUntilError(_, _, _, _)
MergeAccessPointsUntilError(ap_paths, j, all_access_points, calls) ==
    IF j > Len(ap_paths) THEN [aps |-> all_access_points, calls |-> calls]
    ELSE LET r == parse_access_point(ap_paths[j])
             c == calls \o parse_access_point_calls(ap_paths[j])
         IN IF r.ok
            THEN MergeAccessPointsUntilError(ap_paths, j + 1, Merge(all_access_points, r.v[1]), c)
            ELSE [aps |-> all_access_points, calls |-> c]

\* the inner loop over one device's access-point paths
RECURSIVE MergeAccessPoints(_, _, _, _)
MergeAccessPoints(ap_paths, j, all_access_points, calls) ==
    IF j > Len(ap_paths) THEN [aps |-> all_access_points, calls |-> calls]
    ELSE LET r == parse_access_point(ap_paths[j])
             c == calls \o parse_access_point_calls(ap_paths[j])
         IN IF r.ok
            THEN MergeAccessPoints(ap_paths, j + 1, Merge(all_access_points, r.v[1]), c)
            ELSE MergeAccessPoints(ap_paths, j + 1, all_access_points, c)

WeakerFirst(a, b) == a.strength < b.strength

\* the sort_by closure |a, b| b.strength.cmp(&a.strength) says a goes before b
StrongerFirst(a, b) == b.strength < a.strength

\* stable insertion: x goes before the first element it must precede
SortedInsert(s, x) ==
    LET later == {i \in 1..Len(s) : StrongerFirst(x, s[i])}
        at == IF later = {} THEN Len(s) + 1 ELSE CHOOSE i \in later : \A k \in later : i <= k
    IN SubSeq(s, 1, at - 1) \o <<x>> \o SubSeq(s, at, Len(s))

\* Vec::sort_by (stable)
RECURSIVE sort_by(_)
sort_by(s) ==
    IF s = << >> THEN << >>
    ELSE SortedInsert(sort_by(SubSeq(s, 1, Len(s) - 1)), s[Len(s)])

RECURSIVE ScanDevicesScanRequired(_, _, _, _)
ScanDevicesScanRequired(devices, i, all_access_points, calls) ==
    IF i > Len(devices)
    THEN [ret |-> Ok(sort_by(all_access_points)), calls |-> calls]
    ELSE LET device_path == devices[i]
             d == device[device_path]
             c1 == Append(calls, Call("DeviceType", device_path))
             c2 == c1 \o <<Call("RequestScan", device_path), Call("GetAccessPoints", device_path)>>
         IN IF ~d.device_type.ok THEN [ret |-> Err("DeviceType"), calls |-> c1]
            ELSE IF d.device_type.v # WifiDeviceType
                 THEN ScanDevicesScanRequired(devices, i + 1, all_access_points, c1)
            ELSE IF ~d.request_scan.ok
                 THEN [ret |-> Err("RequestScan"),
                       calls |-> Append(c1, Call("RequestScan", device_path))]
            ELSE IF ~d.get_access_points.ok
                 THEN [ret |-> Err("GetAccessPoints"), calls |-> c2]
            ELSE LET m == MergeAccessPoints(d.get_access_points.v, 1, all_access_points, c2)
                 IN ScanDevicesScanRequired(devices, i + 1, m.aps, m.calls)

RECURSIVE ScanDevicesEnumerateFirst(_, _, _, _)
ScanDevicesEnumerateFirst(devices, i, all_access_points, calls) ==
    IF i > Len(devices)
    THEN [ret |-> Ok(sort_by(all_access_points)), calls |-> calls]
    ELSE LET device_path == devices[i]
             d == device[device_path]
             c1 == Append(calls, Call("DeviceType", device_path))
             c2 == Append(c1, Call("GetAccessPoints", device_path))
             c3 == Append(c2, Call("RequestScan", device_path))
         IN IF ~d.device_type.ok THEN [ret |-> Err("DeviceType"), calls |-> c1]
            ELSE IF d.device_type.v # WifiDeviceType
                 THEN ScanDevicesEnumerateFirst(devices, i + 1, all_access_points, c1)
            ELSE IF ~d.get_access_points.ok
                 THEN [ret |-> Err("GetAccessPoints"), calls |-> c2]
            ELSE LET m == MergeAccessPoints(d.get_access_points.v, 1, all_access_points, c3)
                 IN ScanDevicesEnumerateFirst(devices, i + 1, m.aps, m.calls)

RECURSIVE ScanDevicesAnyType(_, _, _, _)
ScanDevicesAnyType(devices, i, all_access_points, calls) ==
    IF i > Len(devices)
    THEN [ret |-> Ok(sort_by(all_access_points)), calls |-> calls]
    ELSE LET device_path == devices[i]
             d == device[device_path]
             c1 == Append(calls, Call("DeviceType", device_path))
             c2 == c1 \o <<Call("RequestScan", device_path), Call("GetAccessPoints", device_path)>>
         IN IF ~d.device_type.ok THEN [ret |-> Err("DeviceType"), calls |-> c1]
            ELSE IF ~d.get_access_points.ok
                 THEN [ret |-> Err("GetAccessPoints"), calls |-> c2]
            ELSE LET m == MergeAccessPoints(d.get_access_points.v, 1, all_access_points, c2)
                 IN ScanDevicesAnyType(devices, i + 1, m.aps, m.calls)

\* the loop over the manager's devices, from device i on
RECURSIVE ScanDevices(_, _, _, _)
ScanDevices(devices, i, all_access_points, calls) ==
    IF i > Len(devices)
    THEN [ret |-> Ok(sort_by(all_access_points)), calls |-> calls]
    ELSE LET device_path == devices[i]
             d == device[device_path]
             c1 == Append(calls, Call("DeviceType", device_path))
             c2 == c1 \o <<Call("RequestScan", device_path), Call("GetAccessPoints", device_path)>>
         IN IF ~d.device_type.ok THEN [ret |-> Err("DeviceType"), calls |-> c1]
            ELSE IF d.device_type.v # WifiDeviceType
                 THEN ScanDevices(devices, i + 1, all_access_points, c1)
            ELSE IF ~d.get_access_points.ok
                 THEN [ret |-> Err("GetAccessPoints"), calls |-> c2]
            ELSE LET m == MergeAccessPoints(d.get_access_points.v, 1, all_access_points, c2)
                 IN ScanDevices(devices, i + 1, m.aps, m.calls)

scan_networks ==
    IF ~nm_devices.ok
    THEN [ret |-> Err("GetDevices"), calls |-> <<Call("GetDevices", "/org/freedesktop/NetworkManager")>>]
    ELSE ScanDevices(nm_devices.v, 1, << >>,
                     <<Call("GetDevices", "/org/freedesktop/NetworkManager")>>)

(***************************************************************************)
(* get_active_connection and get_ip_address.                               *)
(***************************************************************************)
Ip4ConfigAt(ip4_config_path) ==
    IF ip4_config_path \in DOMAIN ip4_config
    THEN ip4_config[ip4_config_path]
    ELSE [address_data |-> RErrSeq]

NeverNoActiveAccessPoint(active_ap_path) == FALSE

\* line 215: the active access point is "/" when the device is not connected
HasNoActiveAccessPoint(active_ap_path) == active_ap_path = Sentinel

\* line 308: the IPv4 configuration is "/" when the device has none
HasNoIp4Config(ip4_config_path) == ip4_config_path = Sentinel

FirstUsableAddress(address_data) ==
    LET usable == {i \in 1..Len(address_data) :
                      "address" \in DOMAIN address_data[i] /\ address_data[i]["address"].sig = "s"}
    IN IF usable = {} THEN ""
       ELSE address_data[CHOOSE i \in usable : \A k \in usable : i <= k]["address"].str

\* lines 319-327: the "address" entry of the first element, when it is a string
FirstAddress(address_data) ==
    IF address_data # << >>
       /\ "address" \in DOMAIN address_data[1]
       /\ address_data[1]["address"].sig = "s"
    THEN address_data[1]["address"].str
    ELSE ""

get_ip_address_calls(device_path) ==
    LET r == device[device_path].ip4_config IN
    IF ~r.ok \/ HasNoIp4Config(r.v) THEN <<Call("Ip4Config", device_path)>>
    ELSE <<Call("Ip4Config", device_path), Call("AddressData", r.v)>>

get_ip_address(device_path) ==
    LET r == device[device_path].ip4_config IN
    IF ~r.ok THEN Err("Ip4Config")
    ELSE IF HasNoIp4Config(r.v) THEN Ok(<<"">>)
    ELSE IF ~Ip4ConfigAt(r.v).address_data.ok THEN Err("AddressData")
    ELSE Ok(<<FirstAddress(Ip4ConfigAt(r.v).address_data.v)>>)

\* Result<String>::unwrap_or_default
unwrap_or_default(r) == IF r.ok THEN r.v[1] ELSE ""

FoundOrFail(ap, interface, ip_address) ==
    IF ip_address.ok
    THEN Ok(<<[ssid |-> ap.ssid, strength |-> ap.strength, interface |-> interface,
               ip_address |-> ip_address.v[1]]>>)
    ELSE Err(ip_address.err)

\* lines 224-231: the connection returned for a decoded active access point
Found(ap, interface, ip_address) ==
    Ok(<<[ssid |-> ap.ssid, strength |-> ap.strength, interface |-> interface,
          ip_address |-> unwrap_or_default(ip_address)]>>)

NoActiveConnectionIsError == Err("NoActiveConnection")

\* line 235: no device resolved
NoActiveConnection == Ok(<< >>)

RECURSIVE ActiveDevices(_, _, _)

StopAtDisconnected(devices, i, calls) == [ret |-> NoActiveConnection, calls |-> calls]

\* lines 215-217: `continue` past a device without active access point
SkipDisconnected(devices, i, calls) == ActiveDevices(devices, i + 1, calls)

FailUndecodable(devices, i, calls) == [ret |-> Err("AccessPoint"), calls |-> calls]

\* lines 222, 232-233: an undecodable access point falls through to the next device
SkipUndecodable(devices, i, calls) == ActiveDevices(devices, i + 1, calls)

\* the loop over the manager's devices, from device i on
ActiveDevices(devices, i, calls) ==
    IF i > Len(devices) THEN [ret |-> NoActiveConnection, calls |-> calls]
    ELSE LET device_path == devices[i]
             d == device[device_path]
             c1 == Append(calls, Call("DeviceType", device_path))
             c2 == Append(c1, Call("ActiveAccessPoint", device_path))
             c3 == Append(c2, Call("Interface", device_path))
             c4 == c3 \o parse_access_point_calls(d.active_access_point.v)
             ap == parse_access_point(d.active_access_point.v)
         IN IF ~d.device_type.ok THEN [ret |-> Err("DeviceType"), calls |-> c1]
            ELSE IF d.device_type.v # WifiDeviceType THEN ActiveDevices(devices, i + 1, c1)
            ELSE IF ~d.active_access_point.ok
                 THEN [ret |-> Err("ActiveAccessPoint"), calls |-> c2]
            ELSE IF HasNoActiveAccessPoint(d.active_access_point.v)
                 THEN SkipDisconnected(devices, i, c2)
            ELSE IF ~d.interface.ok THEN [ret |-> Err("Interface"), calls |-> c3]
            ELSE IF ap.ok
                 THEN [ret |-> Found(ap.v[1], d.interface.v, get_ip_address(device_path)),
                       calls |-> c4 \o get_ip_address_calls(device_path)]
            ELSE SkipUndecodable(devices, i, c4)

get_active_connection ==
    IF ~nm_devices.ok
    THEN [ret |-> Err("GetDevices"), calls |-> <<Call("GetDevices", "/org/freedesktop/NetworkManager")>>]
    ELSE ActiveDevices(nm_devices.v, 1,
                       <<Call("GetDevices", "/org/freedesktop/NetworkManager")>>)

(***************************************************************************)
(* disconnect by interface name.                                           *)
(***************************************************************************)
NameWasRead(device_interface, interface) == device_interface.ok

\* lines 263-264: the interface name was read and equals the argument
NameMatches(device_interface, interface) ==
    device_interface.ok /\ device_interface.v = interface

RECURSIVE DisconnectWifiDevices(_, _, _, _)
DisconnectWifiDevices(devices, i, interface, calls) ==
    IF i > Len(devices) THEN [ret |-> Err("NotFound"), calls |-> calls]
    ELSE LET device_path == devices[i]
             d == device[device_path]
             c0 == Append(calls, Call("DeviceType", device_path))
             c1 == Append(c0, Call("Interface", device_path))
         IN IF d.device_type # ROk(WifiDeviceType)
            THEN DisconnectWifiDevices(devices, i + 1, interface, c0)
            ELSE IF NameMatches(d.interface, interface)
            THEN [ret |-> IF d.disconnect.ok THEN Ok(<< >>) ELSE Err("Disconnect"),
                  calls |-> Append(c1, Call("Disconnect", device_path))]
            ELSE DisconnectWifiDevices(devices, i + 1, interface, c1)

RECURSIVE DisconnectDevicesNameRequired(_, _, _, _)
DisconnectDevicesNameRequired(devices, i, interface, calls) ==
    IF i > Len(devices) THEN [ret |-> Err("NotFound"), calls |-> calls]
    ELSE LET device_path == devices[i]
             d == device[device_path]
             c1 == Append(calls, Call("Interface", device_path))
         IN IF ~d.interface.ok THEN [ret |-> Err("Interface"), calls |-> c1]
            ELSE IF NameMatches(d.interface, interface)
            THEN [ret |-> IF d.disconnect.ok THEN Ok(<< >>) ELSE Err("Disconnect"),
                  calls |-> Append(c1, Call("Disconnect", device_path))]
            ELSE DisconnectDevicesNameRequired(devices, i + 1, interface, c1)

RECURSIVE DisconnectDevicesRetry(_, _, _, _)
DisconnectDevicesRetry(devices, i, interface, calls) ==
    IF i > Len(devices) THEN [ret |-> Err("NotFound"), calls |-> calls]
    ELSE LET device_path == devices[i]
             d == device[device_path]
             c1 == Append(calls, Call("Interface", device_path))
             c2 == Append(c1, Call("Disconnect", device_path))
         IN IF NameMatches(d.interface, interface)
            THEN IF d.disconnect.ok THEN [ret |-> Ok(<< >>), calls |-> c2]
                 ELSE DisconnectDevicesRetry(devices, i + 1, interface, c2)
            ELSE DisconnectDevicesRetry(devices, i + 1, interface, c1)

RECURSIVE DisconnectDevices(_, _, _, _)
DisconnectDevices(devices, i, interface, calls) ==
    IF i > Len(devices) THEN [ret |-> Err("NotFound"), calls |-> calls]
    ELSE LET device_path == devices[i]
             d == device[device_path]
             c1 == Append(calls, Call("Interface", device_path))
         IN IF NameMatches(d.interface, interface)
            THEN [ret |-> IF d.disconnect.ok THEN Ok(<< >>) ELSE Err("Disconnect"),
                  calls |-> Append(c1, Call("Disconnect", device_path))]
            ELSE DisconnectDevices(devices, i + 1, interface, c1)

disconnect(interface) ==
    IF ~nm_devices.ok
    THEN [ret |-> Err("GetDevices"), calls |-> <<Call("GetDevices", "/org/freedesktop/NetworkManager")>>]
    ELSE DisconnectDevices(nm_devices.v, 1, interface,
                           <<Call("GetDevices", "/org/freedesktop/NetworkManager")>>)

(***************************************************************************)
(* connect_to_network: delegated to the helper process.                    *)
(***************************************************************************)
connect_to_network_checked(ssid) ==
    [ret |-> IF nmcli.launch = "ok" /\ nmcli.status = 0 THEN Ok(<< >>) ELSE Err("Failed to connect"),
     calls |-> <<Call("nmcli device wifi connect", ssid)>>]

\* lines 242-248: Command::output() fails when the process cannot be
\* launched; its exit status and output are not looked at
connect_to_network(ssid) ==
    [ret |-> IF nmcli.launch = "ok" THEN Ok(<< >>) ELSE Err("Failed to connect"),
     calls |-> <<Call("nmcli device wifi connect", ssid)>>]

(***************************************************************************)
(* The remote objects the model draws from.                                *)
(***************************************************************************)
Cafe == <<67, 97, 102, 101>>
Home == <<72, 111, 109, 101>>
Work == <<87, 111, 114, 107>>

AccessPointObject(ssid, strength, wpa_flags, rsn_flags) ==
    [ssid |-> ssid, strength |-> strength, wpa_flags |-> wpa_flags, rsn_flags |-> rsn_flags]

\* the access points on the bus: three SSIDs, equal and different strengths,
\* open and secured, and two that cannot be decoded
AccessPoints ==
    [p \in {"/ap/1", "/ap/2", "/ap/3", "/ap/4", "/ap/5", "/ap/6", "/ap/7"} |->
        CASE p = "/ap/1" -> AccessPointObject(ROk(Cafe), ROk(40), ROk(0), ROk(0))
          [] p = "/ap/2" -> AccessPointObject(ROk(Cafe), ROk(40), ROk(1), RErrNum)
          [] p = "/ap/3" -> AccessPointObject(ROk(Cafe), ROk(72), ROk(0), ROk(392))
          [] p = "/ap/4" -> AccessPointObject(ROk(Work), ROk(72), RErrNum, RErrNum)
          [] p = "/ap/5" -> AccessPointObject(ROk(Home), ROk(90), ROk(392), ROk(392))
          [] p = "/ap/6" -> AccessPointObject(RErrSeq, ROk(55), ROk(0), ROk(0))
          [] p = "/ap/7" -> AccessPointObject(ROk(Home), RErrNum, ROk(0), ROk(0))]

\* the access points a scanned device may list
ScanApPaths == {"/ap/1", "/ap/2", "/ap/3", "/ap/4", "/ap/5", "/ap/6"}

\* what a device's ActiveAccessPoint may point to
ActiveApPaths == {"/ap/1", "/ap/5", "/ap/6", "/ap/7"}

Str(s) == [sig |-> "s", str |-> s]
U32 == [sig |-> "u", str |-> ""]

\* the IPv4 configurations on the bus, by their AddressData
Ip4Configs ==
    [p \in {"/ip4/1", "/ip4/2", "/ip4/3", "/ip4/4", "/ip4/5"} |->
        CASE p = "/ip4/1" -> [address_data |-> ROk(<<[address |-> Str("10.0.0.5"), prefix |-> U32]>>)]
          [] p = "/ip4/2" -> [address_data |-> ROk(<< >>)]
          [] p = "/ip4/3" -> [address_data |-> RErrSeq]
          [] p = "/ip4/4" -> [address_data |-> ROk(<<[prefix |-> U32],
                                                     [address |-> Str("10.0.0.9"), prefix |-> U32]>>)]
          [] p = "/ip4/5" -> [address_data |-> ROk(<<[address |-> U32, prefix |-> U32]>>)]]

\* a run of the helper: whether it could be launched, and if so its exit
\* status and whether it wrote to stderr
HelperRun(launch, status, stderr) == [launch |-> launch, status |-> status, stderr |-> stderr]

\* the helper runs and connects
HelperConnects == HelperRun("ok", 0, "")

\* nmcli cannot be launched, or runs and exits with one of its statuses 0..10
HelperRuns ==
    {HelperRun(launch, 0, "") : launch \in {"NotFound", "PermissionDenied"}}
    \cup {HelperRun("ok", status, stderr) : status \in 0..10, stderr \in {"", "Error"}}

DevicePaths == <<"/dev/1", "/dev/2", "/dev/3", "/dev/4">>
WlanNames == <<"wlan0", "wlan1", "wlan2", "wlan3">>

DeviceObject(device_type, request_scan, aps, active, interface, ip4, disc) ==
    [device_type |-> device_type, request_scan |-> request_scan,
     get_access_points |-> aps,
     active_access_point |-> active,
     interface |-> interface, ip4_config |-> ip4, disconnect |-> disc]

\* a device the operation under study asks only its type
PlainDevice(device_type) ==
    DeviceObject(device_type, ROk(0), ROk(<< >>), ROk(Sentinel), ROk("eth0"),
                 ROk(Sentinel), ROk(0))

(***************************************************************************)
(* The WiFi widget: its fields, its tasks and its input queue.             *)
(***************************************************************************)
\* tasks alive at one time
MaxTasks == 2
\* inputs of the timer and the user that wait in the queue at one time
MaxInbox == 1

\* a task: what it runs, the ssid and interface it captured, where it is:
\* "new" (awaiting NetworkManagerClient::new), "lock" (awaiting
\* nm_client.lock()), "call" (holding the guard, awaiting the client
\* operation)
Task(op, ssid, interface, pc) == [op |-> op, ssid |-> ssid, interface |-> interface, pc |-> pc]

\* WiFiMsg; the fields a variant does not carry are empty
WiFiMsg(msg, ssid, networks, ok) == [msg |-> msg, ssid |-> ssid, networks |-> networks, ok |-> ok]

Msg(msg) == WiFiMsg(msg, << >>, << >>, TRUE)

\* the variants without a payload
MsgUpdate == Msg("Update")

MsgTogglePopover == Msg("TogglePopover")

MsgScanNetworks == Msg("ScanNetworks")

MsgDisconnect == Msg("Disconnect")

NetworkItem(ssid, strength, secured, connected) == [ssid |-> ssid, strength |-> strength, is_secured |-> secured, is_connected |-> connected]

\* the fields of WiFi that refresh_wifi_info_nmcli writes
Connection(ssid, signal_strength, is_connected, interface, ip_address) == [ssid |-> ssid, signal_strength |-> signal_strength, is_connected |-> is_connected, interface |-> interface, ip_address |-> ip_address]

\* the task of init, which builds the client
InitTask == Task("new", << >>, "", "new")

\* the task of refresh_wifi_info, which waits for the lock
RefreshTask == Task("get_active_connection", << >>, "", "lock")

NotConnected == Connection(<< >>, 0, FALSE, "", "")

\* WiFi as init builds it
NewWiFi == [connection |-> NotConnected, available_networks |-> << >>, is_scanning |-> FALSE]

\* the popover before any content was set
EmptyPopover == [visible |-> FALSE, header |-> FALSE, networks |-> << >>]

\* no widget runs
WidgetNotStarted ==
    /\ nm_client = [client |-> "None", locked |-> FALSE]
    /\ tasks = EmptyBag
    /\ inbox = << >>
    /\ wifi = NewWiFi
    /\ popover = EmptyPopover

NoCall == [op |-> "none", arg |-> ""]

\* no operation is between two of its reads
NothingInProgress == [reading |-> 0, reads |-> << >>, moments |-> {}]

\* a reachable manager that lists no device yet, before any operation
ManagerUp ==
    /\ nm_devices = ROk(<< >>)
    /\ device = << >>
    /\ call = NoCall
    /\ result = Ok(<< >>)
    /\ issued = << >>
    /\ in_progress = NothingInProgress

\* a manager whose GetDevices call fails
ManagerDown ==
    /\ nm_devices = RErrSeq
    /\ device = << >>
    /\ call = NoCall
    /\ result = Ok(<< >>)
    /\ issued = << >>
    /\ in_progress = NothingInProgress

\* the service changed: what an earlier operation returned no longer
\* describes it and is dropped
Forgotten ==
    /\ call' = NoCall
    /\ result' = Ok(<< >>)
    /\ issued' = << >>

\* the service gains a device (hotplug)
DeviceAdded(d) ==
    /\ nm_devices.ok
    /\ Len(nm_devices.v) < MaxDevices
    /\ LET device_path == DevicePaths[Len(nm_devices.v) + 1] IN
       /\ nm_devices' = ROk(Append(nm_devices.v, device_path))
       /\ device' = [p \in DOMAIN device \cup {device_path} |->
                        IF p = device_path THEN d ELSE device[p]]
    /\ Forgotten
    /\ UNCHANGED <<access_point, ip4_config, nmcli>>
    /\ UNCHANGED widget_vars
    /\ UNCHANGED in_progress

\* the access points the devices list, all together
ListedAps ==
    UNION {{device[p].get_access_points.v[j] :
                j \in 1..Len(device[p].get_access_points.v)} : p \in DOMAIN device}

\* a wireless device sees one more access point; an access-point object
\* belongs to one device and is listed once
AccessPointSeen(device_path, ap_path) ==
    /\ device[device_path].device_type = ROk(WifiDeviceType)
    /\ device[device_path].get_access_points.ok
    /\ ap_path \notin ListedAps
    /\ Cardinality(ListedAps) < MaxAps
    /\ device' = [device EXCEPT ![device_path].get_access_points.v = Append(@, ap_path)]
    /\ Forgotten
    /\ UNCHANGED <<nm_devices, access_point, ip4_config, nmcli>>
    /\ UNCHANGED widget_vars
    /\ UNCHANGED in_progress

Returns(op, arg, outcome) ==
    /\ call' = [op |-> op, arg |-> arg]
    /\ result' = outcome.ret
    /\ issued' = outcome.calls
    /\ UNCHANGED <<nm_devices, device, access_point, ip4_config, nmcli>>
    /\ UNCHANGED widget_vars
    /\ UNCHANGED in_progress

(***************************************************************************)
(* Scanning: the devices differ in type, scan request and access points.   *)
(***************************************************************************)
\* the devices before they have seen an access point: one whose type cannot
\* be read, a wired one, and wireless ones whose scan request or listing may fail
ScanDeviceObjects ==
    {PlainDevice(RErrNum), PlainDevice(ROk(1))}
    \cup {DeviceObject(ROk(WifiDeviceType), scan, aps, ROk(Sentinel), ROk("wlan0"),
                       ROk(Sentinel), ROk(0)) :
             scan \in {ROk(0), RErrNum}, aps \in {ROk(<< >>), RErrSeq}}

InitScan ==
    /\ access_point = AccessPoints
    /\ ip4_config = Ip4Configs
    /\ nmcli = HelperConnects
    /\ WidgetNotStarted
    /\ (ManagerUp \/ ManagerDown)

ScanDeviceAdded == \E d \in ScanDeviceObjects : DeviceAdded(d)

ScanAccessPointSeen ==
    \E device_path \in DOMAIN device : \E ap_path \in ScanApPaths :
        AccessPointSeen(device_path, ap_path)

ScanNetworks == Returns("scan_networks", "", scan_networks)

NextScan == ScanDeviceAdded \/ ScanAccessPointSeen \/ ScanNetworks

SpecScan == InitScan /\ [][NextScan]_vars

(***************************************************************************)
(* Resolving the active connection: the devices differ in type, active     *)
(* access point, interface name and IPv4 configuration.                    *)
(***************************************************************************)
\* the n-th device: unread properties keep a fixed value
ActiveDeviceObjects(n) ==
    LET wireless(active, interface, ip4) ==
            DeviceObject(ROk(WifiDeviceType), ROk(0), ROk(<< >>), active, interface,
                         ip4, ROk(0))
        name == ROk(WlanNames[n])
    IN  {PlainDevice(RErrNum), PlainDevice(ROk(1)),
         wireless(RErrStr, name, ROk(Sentinel)),
         wireless(ROk(Sentinel), name, ROk(Sentinel))}
        \cup {wireless(ROk(ap_path), RErrStr, ROk(Sentinel)) : ap_path \in ActiveApPaths}
        \cup {wireless(ROk(ap_path), name, ROk(Sentinel)) : ap_path \in {"/ap/6", "/ap/7"}}
        \cup {wireless(ROk(ap_path), name, ip4) :
                 ap_path \in {"/ap/1", "/ap/5"},
                 ip4 \in {RErrStr, ROk(Sentinel)} \cup {ROk(p) : p \in DOMAIN Ip4Configs}}

InitActive ==
    /\ access_point = AccessPoints
    /\ ip4_config = Ip4Configs
    /\ nmcli = HelperConnects
    /\ WidgetNotStarted
    /\ (ManagerUp \/ ManagerDown)

ActiveDeviceAdded ==
    \E d \in ActiveDeviceObjects(Len(nm_devices.v) + 1) : DeviceAdded(d)

GetActiveConnection == Returns("get_active_connection", "", get_active_connection)

NextActive == ActiveDeviceAdded \/ GetActiveConnection

SpecActive == InitActive /\ [][NextActive]_vars

(***************************************************************************)
(* Disconnecting: the devices differ in type, interface name and in        *)
(* whether their Disconnect call succeeds.                                 *)
(***************************************************************************)
DisconnectDeviceObjects ==
    {DeviceObject(ROk(device_type), ROk(0), ROk(<< >>), ROk(Sentinel), interface,
                  ROk(Sentinel), disc) :
        device_type \in {1, WifiDeviceType},
        interface \in {RErrStr, ROk("wlan0"), ROk("eth0")},
        disc \in {ROk(0), RErrNum}}

InterfaceArguments == {"wlan0", "eth0", "eth-does-not-exist"}

InitDisconnect == InitActive

DisconnectDeviceAdded == \E d \in DisconnectDeviceObjects : DeviceAdded(d)

Disconnect ==
    \E interface \in InterfaceArguments :
        Returns("disconnect", interface, disconnect(interface))

NextDisconnect == DisconnectDeviceAdded \/ Disconnect

SpecDisconnect == InitDisconnect /\ [][NextDisconnect]_vars

(***************************************************************************)
(* Wired devices among wireless ones, under both enumerations.             *)
(***************************************************************************)
\* NetworkManager device type codes other than WiFi: Ethernet, Generic
OtherDeviceTypes == {1, 14}

\* devices that are not wireless have none of the wireless members; the
\* wireless ones are connected or not, and one cannot list its access points
MixedDeviceObjects ==
    {DeviceObject(ROk(device_type), RErrNum, RErrSeq, RErrStr, ROk("eth0"), ROk(Sentinel), ROk(0)) :
        device_type \in OtherDeviceTypes}
    \cup {DeviceObject(ROk(WifiDeviceType), ROk(0), aps, ROk(active), ROk("wlan0"), ROk("/ip4/1"), ROk(0)) :
             aps \in {ROk(<< >>), RErrSeq}, active \in {Sentinel, "/ap/5"}}

MixedApPaths == {"/ap/1", "/ap/5", "/ap/6"}

InitMixed == InitScan

MixedDeviceAdded == \E d \in MixedDeviceObjects : DeviceAdded(d)

MixedAccessPointSeen ==
    \E device_path \in DOMAIN device : \E ap_path \in MixedApPaths :
        AccessPointSeen(device_path, ap_path)

NextMixed == MixedDeviceAdded \/ MixedAccessPointSeen \/ ScanNetworks \/ GetActiveConnection

SpecMixed == InitMixed /\ [][NextMixed]_vars

(***************************************************************************)
(* get_active_connection read by read, over one wireless device that roams *)
(* between two networks while the call is under way.  Every read is a      *)
(* round trip of its own and sees the service as it is at that moment.     *)
(***************************************************************************)
\* the reads of get_active_connection on a device, in the order of the code
ReadOrder ==
    <<"GetDevices", "DeviceType", "ActiveAccessPoint", "Interface", "Ssid", "Strength",
      "WpaFlags", "RsnFlags", "Ip4Config", "AddressData">>

\* the IPv4 configurations of the two networks
RoamingIp4Configs ==
    [p \in {"/ip4/7", "/ip4/8"} |->
        [address_data |-> ROk(<<[address |-> Str(IF p = "/ip4/7" THEN "10.0.0.5" ELSE "10.0.0.9"),
                                 prefix |-> U32]>>)]]

\* the device associated with Cafe at 10.0.0.5, or with Home at 10.0.0.9,
\* or with no network
Associated(ap_path, ip4_config_path) ==
    DeviceObject(ROk(WifiDeviceType), ROk(0), ROk(<< >>), ROk(ap_path), ROk("wlan0"),
                 ROk(ip4_config_path), ROk(0))

Associations ==
    {Associated("/ap/1", "/ip4/7"), Associated("/ap/5", "/ip4/8"), Associated(Sentinel, Sentinel)}

InitSnapshot ==
    /\ access_point = AccessPoints
    /\ ip4_config = RoamingIp4Configs
    /\ nmcli = HelperConnects
    /\ WidgetNotStarted
    /\ nm_devices = ROk(<<"/dev/1">>)
    /\ device \in [{"/dev/1"} -> Associations]
    /\ call = NoCall
    /\ result = Ok(<< >>)
    /\ issued = << >>
    /\ in_progress = NothingInProgress

\* the reply the service gives now to the k-th read, after the earlier replies
ReplyTo(k, reads) ==
    LET device_path == reads[1].v[1] IN
    CASE k = 1 -> nm_devices
      [] k = 2 -> device[device_path].device_type
      [] k = 3 -> device[device_path].active_access_point
      [] k = 4 -> device[device_path].interface
      [] k = 5 -> AccessPointAt(reads[3].v).ssid
      [] k = 6 -> AccessPointAt(reads[3].v).strength
      [] k = 7 -> AccessPointAt(reads[3].v).wpa_flags
      [] k = 8 -> AccessPointAt(reads[3].v).rsn_flags
      [] k = 9 -> device[device_path].ip4_config
      [] k = 10 -> Ip4ConfigAt(reads[9].v).address_data

\* the AccessPoint that parse_access_point builds of its four reads
ParsedOf(reads) ==
    [ssid |-> from_utf8_lossy(reads[5].v), strength |-> reads[6].v,
     is_secured |-> is_secured(unwrap_or_0(reads[7]), unwrap_or_0(reads[8])),
     path |-> reads[3].v]

\* what the call does after its latest read: [done, ret].  The manager
\* lists one device, so passing over the device ends the loop
AfterRead(reads) ==
    LET k == Len(reads)
        r == reads[k]
        goes_on == [done |-> FALSE, ret |-> Ok(<< >>)]
        returns(ret) == [done |-> TRUE, ret |-> ret]
    IN CASE k = 1 -> IF ~r.ok THEN returns(Err("GetDevices"))
                     ELSE IF r.v = << >> THEN returns(NoActiveConnection) ELSE goes_on
         [] k = 2 -> IF ~r.ok THEN returns(Err("DeviceType"))
                     ELSE IF r.v # WifiDeviceType THEN returns(NoActiveConnection) ELSE goes_on
         [] k = 3 -> IF ~r.ok THEN returns(Err("ActiveAccessPoint"))
                     ELSE IF HasNoActiveAccessPoint(r.v) THEN returns(NoActiveConnection)
                     ELSE goes_on
         [] k = 4 -> IF ~r.ok THEN returns(Err("Interface")) ELSE goes_on
         [] k \in {5, 6} -> IF ~r.ok THEN returns(NoActiveConnection) ELSE goes_on
         [] k \in {7, 8} -> goes_on
         [] k = 9 -> IF ~r.ok THEN returns(Found(ParsedOf(reads), reads[4].v, Err("Ip4Config")))
                     ELSE IF HasNoIp4Config(r.v)
                     THEN returns(Found(ParsedOf(reads), reads[4].v, Ok(<<"">>)))
                     ELSE goes_on
         [] k = 10 -> returns(Found(ParsedOf(reads), reads[4].v,
                                    IF r.ok THEN Ok(<<FirstAddress(r.v)>>) ELSE Err("AddressData")))

\* the object a read is made on
ObjectOf(k, reads) ==
    CASE k = 1 -> "/org/freedesktop/NetworkManager"
      [] k \in {2, 3, 4, 9} -> reads[1].v[1]
      [] k \in {5, 6, 7, 8} -> reads[3].v
      [] k = 10 -> reads[9].v

\* what the service holds now: the connection a call would return if all
\* its reads were made at this moment
Moment == get_active_connection.ret

\* the call starts
BeginGetActiveConnection ==
    /\ in_progress.reading = 0
    /\ in_progress' = [reading |-> 1, reads |-> << >>, moments |-> {Moment}]
    /\ call' = [op |-> "get_active_connection", arg |-> ""]
    /\ result' = Ok(<< >>)
    /\ issued' = << >>
    /\ UNCHANGED <<nm_devices, device, access_point, ip4_config, nmcli>>
    /\ UNCHANGED widget_vars

\* the next read of the call returns; the call goes on or returns
Read ==
    /\ in_progress.reading > 0
    /\ LET k == in_progress.reading
           reads == Append(in_progress.reads, ReplyTo(k, in_progress.reads))
       IN /\ issued' = Append(issued, Call(ReadOrder[k], ObjectOf(k, in_progress.reads)))
          /\ IF AfterRead(reads).done
             THEN /\ result' = AfterRead(reads).ret
                  /\ in_progress' = [in_progress EXCEPT !.reading = 0, !.reads = reads]
             ELSE /\ in_progress' = [in_progress EXCEPT !.reading = k + 1, !.reads = reads]
                  /\ UNCHANGED result
    /\ UNCHANGED <<nm_devices, device, access_point, ip4_config, nmcli, call>>
    /\ UNCHANGED widget_vars

\* the device associates with another network or with none; its active
\* access point and its IPv4 configuration change together
Roams ==
    /\ \E d \in Associations \ {device["/dev/1"]} : device' = [device EXCEPT !["/dev/1"] = d]
    /\ UNCHANGED <<nm_devices, access_point, ip4_config, nmcli, call, result, issued>>
    /\ UNCHANGED widget_vars
    /\ in_progress' = IF in_progress.reading > 0
                      THEN [in_progress EXCEPT !.moments = @ \cup {Moment'}]
                      ELSE in_progress

NextSnapshot == BeginGetActiveConnection \/ Read \/ Roams

SpecSnapshot == InitSnapshot /\ [][NextSnapshot]_vars

(***************************************************************************)
(* Connecting: the helper runs differ.                                     *)
(***************************************************************************)
SsidArguments == {"", "Cafe", "Home", "Work"}

InitConnect ==
    /\ access_point = AccessPoints
    /\ ip4_config = Ip4Configs
    /\ nmcli \in HelperRuns
    /\ WidgetNotStarted
    /\ ManagerUp

ConnectToNetwork ==
    \E ssid \in SsidArguments :
        Returns("connect_to_network", ssid, connect_to_network(ssid))

NextConnect == ConnectToNetwork

SpecConnect == InitConnect /\ [][NextConnect]_vars

(***************************************************************************)
(* Decoding one access point, over every combination of its properties.    *)
(***************************************************************************)
DecodeApObjects ==
    {AccessPointObject(ssid, strength, wpa_flags, rsn_flags) :
        ssid \in {RErrSeq, ROk(Cafe), ROk(<<255, 67>>)},
        strength \in {RErrNum, ROk(0), ROk(100)},
        wpa_flags \in {RErrNum, ROk(0), ROk(1), ROk(392)},
        rsn_flags \in {RErrNum, ROk(0), ROk(1), ROk(392)}}

InitDecode ==
    /\ access_point \in [{"/ap/1"} -> DecodeApObjects]
    /\ ip4_config = Ip4Configs
    /\ nmcli = HelperConnects
    /\ WidgetNotStarted
    /\ ManagerUp

ParseAccessPoint ==
    \E ap_path \in DOMAIN access_point \cup {Sentinel} :
        Returns("parse_access_point", ap_path,
                [ret |-> parse_access_point(ap_path),
                 calls |-> parse_access_point_calls(ap_path)])

NextDecode == ParseAccessPoint

SpecDecode == InitDecode /\ [][NextDecode]_vars

(***************************************************************************)
(* The WiFi widget over one wireless device that sees two access points.   *)
(* Inputs are handled one at a time, oldest first; each client operation   *)
(* runs in a task of its own that takes the lock of nm_client first and    *)
(* holds the guard until the operation has returned.                       *)
(***************************************************************************)
\* the widget starts: the client is being built by the first task
InitWidget ==
    /\ access_point = AccessPoints
    /\ ip4_config = Ip4Configs
    /\ nmcli \in {HelperConnects, HelperRun("NotFound", 0, "")}
    /\ \/ /\ nm_devices = ROk(<<"/dev/1">>)
          /\ device = [p \in {"/dev/1"} |->
                          DeviceObject(ROk(WifiDeviceType), ROk(0), ROk(<<"/ap/1", "/ap/5">>),
                                       ROk("/ap/5"), ROk("wlan0"), ROk("/ip4/1"), ROk(0))]
       \/ /\ nm_devices = RErrSeq
          /\ device = << >>
    /\ call = NoCall
    /\ result = Ok(<< >>)
    /\ issued = << >>
    /\ in_progress = NothingInProgress
    /\ nm_client = [client |-> "None", locked |-> FALSE]
    /\ tasks = SetToBag({InitTask})
    /\ inbox = << >>
    /\ wifi = NewWiFi
    /\ popover = EmptyPopover

\* the widget leaves the service and the record of direct calls alone
WidgetOnly == UNCHANGED <<nm_devices, device, access_point, ip4_config, nmcli, call, result, issued, in_progress>>

\* tokio::spawn
CanSpawn == BagCardinality(tasks) < MaxTasks

Spawn(task) == tasks (+) SetToBag({task})

\* a task ends
Ended(task) == tasks (-) SetToBag({task})

\* a task moves on
At(task, pc) == Ended(task) (+) SetToBag({[task EXCEPT !.pc = pc]})

\* sender.input
Send(queue, msg) == Append(queue, msg)

Receives(msg) == inbox # << >> /\ Head(inbox).msg = msg

\* what `nmcli -t -f ACTIVE,SSID,SIGNAL,DEVICE dev wifi` and `ip -4 addr show`
\* leave in the fields: nothing active, or the active line with the address
\* of its interface
NmcliReports ==
    IF nmcli.launch # "ok" THEN {NotConnected}
    ELSE {NotConnected, Connection(from_utf8_lossy(Home), 90, TRUE, "wlan0", "10.0.0.5/24")}

\* update_popover_content: the header with its buttons, and the network
\* list unless a scan is running
Rendered(w) ==
    [popover EXCEPT !.header = TRUE,
                    !.networks = IF w.is_scanning THEN << >> ELSE w.available_networks]

\* WiFiMsg::Update, refresh_wifi_info
OnUpdate ==
    /\ Receives("Update")
    /\ CanSpawn
    /\ tasks' = Spawn(RefreshTask)
    /\ \E report \in NmcliReports :
          /\ wifi' = [wifi EXCEPT !.connection = report]
          /\ popover' = Rendered(wifi')
    /\ inbox' = Tail(inbox)
    /\ UNCHANGED nm_client
    /\ WidgetOnly

\* WiFiMsg::TogglePopover
OnTogglePopover ==
    /\ Receives("TogglePopover")
    /\ popover' = [popover EXCEPT !.visible = ~@]
    /\ inbox' = Send(Tail(inbox), MsgScanNetworks)
    /\ UNCHANGED <<nm_client, tasks, wifi>>
    /\ WidgetOnly

OnScanNetworksAlways ==
    /\ Receives("ScanNetworks")
    /\ CanSpawn
    /\ wifi' = [wifi EXCEPT !.is_scanning = TRUE]
    /\ tasks' = Spawn(Task("scan_networks", wifi.connection.ssid, "", "lock"))
    /\ inbox' = Tail(inbox)
    /\ UNCHANGED <<nm_client, popover>>
    /\ WidgetOnly

\* WiFiMsg::ScanNetworks, WiFi::scan_networks
OnScanNetworks ==
    /\ Receives("ScanNetworks")
    /\ IF ~wifi.is_scanning
       THEN /\ CanSpawn
            /\ wifi' = [wifi EXCEPT !.is_scanning = TRUE]
            /\ tasks' = Spawn(Task("scan_networks", wifi.connection.ssid, "", "lock"))
       ELSE UNCHANGED <<wifi, tasks>>
    /\ inbox' = Tail(inbox)
    /\ UNCHANGED <<nm_client, popover>>
    /\ WidgetOnly

\* WiFiMsg::NetworksScanned
OnNetworksScanned ==
    /\ Receives("NetworksScanned")
    /\ wifi' = [wifi EXCEPT !.is_scanning = FALSE,
                            !.available_networks = Head(inbox).networks]
    /\ popover' = Rendered(wifi')
    /\ inbox' = Tail(inbox)
    /\ UNCHANGED <<nm_client, tasks>>
    /\ WidgetOnly

\* WiFiMsg::ConnectToNetwork, WiFi::connect_to_network
OnConnectToNetwork ==
    /\ Receives("ConnectToNetwork")
    /\ CanSpawn
    /\ tasks' = Spawn(Task("connect_to_network", Head(inbox).ssid, "", "lock"))
    /\ inbox' = Tail(inbox)
    /\ UNCHANGED <<nm_client, wifi, popover>>
    /\ WidgetOnly

\* WiFiMsg::Disconnect, WiFi::disconnect
OnDisconnect ==
    /\ Receives("Disconnect")
    /\ CanSpawn
    /\ tasks' = Spawn(Task("disconnect", << >>, wifi.connection.interface, "lock"))
    /\ inbox' = Tail(inbox)
    /\ UNCHANGED <<nm_client, wifi, popover>>
    /\ WidgetOnly

\* WiFiMsg::ConnectionResult
OnConnectionResult ==
    /\ Receives("ConnectionResult")
    /\ inbox' = IF Head(inbox).ok
                THEN Send(Send(Tail(inbox), MsgUpdate), MsgScanNetworks)
                ELSE Tail(inbox)
    /\ UNCHANGED <<nm_client, tasks, wifi, popover>>
    /\ WidgetOnly

\* the task of init: NetworkManagerClient::new() returns
NewClient(t) ==
    /\ t.pc = "new"
    /\ \E connected \in BOOLEAN :
          tasks' = IF connected THEN At(t, "lock") ELSE Ended(t)
    /\ UNCHANGED <<nm_client, inbox, wifi, popover>>
    /\ WidgetOnly

\* tokio::sync::Mutex: lock() returns to one waiting task when no guard is out
LockFree == ~nm_client.locked

\* a task gets the guard.  The task of init stores the client, sends Update
\* and drops the guard; another task ends at once when there is no client
\* and otherwise starts its client operation, keeping the guard
Lock(t) ==
    /\ t.pc = "lock"
    /\ LockFree
    /\ IF t.op = "new"
       THEN /\ nm_client' = [nm_client EXCEPT !.client = "Some"]
            /\ inbox' = Send(inbox, MsgUpdate)
            /\ tasks' = Ended(t)
       ELSE IF nm_client.client = "None"
       THEN /\ tasks' = Ended(t)
            /\ UNCHANGED <<nm_client, inbox>>
       ELSE /\ nm_client' = [nm_client EXCEPT !.locked = TRUE]
            /\ tasks' = At(t, "call")
            /\ UNCHANGED inbox
    /\ UNCHANGED <<wifi, popover>>
    /\ WidgetOnly

\* the NetworkItem list made of a scan's records
NetworkItems(access_points, current_ssid) ==
    [i \in 1..Len(access_points) |->
        NetworkItem(access_points[i].ssid, access_points[i].strength,
                    access_points[i].is_secured, access_points[i].ssid = current_ssid)]

\* the client operation of a task returns, and the end of the task's
\* `if let Some(client)` body drops the guard
Returning(t, op) ==
    /\ t.pc = "call" /\ t.op = op
    /\ nm_client' = [nm_client EXCEPT !.locked = FALSE]
    /\ tasks' = Ended(t)
    /\ UNCHANGED <<wifi, popover>>
    /\ WidgetOnly

ScanTaskReturns(t) ==
    /\ Returning(t, "scan_networks")
    /\ inbox' = Send(inbox, WiFiMsg("NetworksScanned", << >>,
                                    NetworkItems(scan_networks.ret.v, t.ssid), TRUE))

RefreshTaskReturns(t) ==
    /\ Returning(t, "get_active_connection")
    /\ UNCHANGED inbox

ConnectTaskReturns(t) ==
    /\ Returning(t, "connect_to_network")
    /\ inbox' = Send(inbox, WiFiMsg("ConnectionResult", << >>, << >>,
                                    connect_to_network(t.ssid).ret.ok))

DisconnectTaskReturns(t) ==
    /\ Returning(t, "disconnect")
    /\ inbox' = Send(inbox, WiFiMsg("ConnectionResult", << >>, << >>,
                                    disconnect(t.interface).ret.ok))

\* an input of the timer or the user joins the queue
Input(msg) ==
    /\ Len(inbox) < MaxInbox
    /\ inbox' = Send(inbox, msg)
    /\ UNCHANGED <<nm_client, tasks, wifi, popover>>
    /\ WidgetOnly

\* glib timeout, every 10 seconds
TimerFires == Input(MsgUpdate)

\* the user clicks a button: the widget's own, shown while connected, or one
\* of the popover as it was last rendered
ClickWifiButton == wifi.connection.is_connected /\ Input(MsgTogglePopover)

ClickRefresh == popover.visible /\ popover.header /\ Input(MsgScanNetworks)

ClickDisconnect == popover.visible /\ popover.header /\ Input(MsgDisconnect)

ClickNetwork ==
    /\ popover.visible
    /\ \E i \in 1..Len(popover.networks) :
          Input(WiFiMsg("ConnectToNetwork", popover.networks[i].ssid, << >>, TRUE))

NextWidget ==
    \/ OnUpdate \/ OnTogglePopover \/ OnScanNetworks \/ OnNetworksScanned
    \/ OnConnectToNetwork \/ OnDisconnect \/ OnConnectionResult
    \/ \E t \in BagToSet(tasks) : NewClient(t)
    \/ \E t \in BagToSet(tasks) : Lock(t)
    \/ \E t \in BagToSet(tasks) : ScanTaskReturns(t)
    \/ \E t \in BagToSet(tasks) : RefreshTaskReturns(t)
    \/ \E t \in BagToSet(tasks) : ConnectTaskReturns(t)
    \/ \E t \in BagToSet(tasks) : DisconnectTaskReturns(t)
    \/ TimerFires \/ ClickWifiButton \/ ClickRefresh \/ ClickDisconnect \/ ClickNetwork

SpecWidget == InitWidget /\ [][NextWidget]_vars

(***************************************************************************)
(* Properties of scan_networks.                                            *)
(***************************************************************************)
\* the devices whose type reads as WiFi
WirelessDevices == {p \in DOMAIN device : device[p].device_type = ROk(WifiDeviceType)}

\* the access-point paths the wireless devices enumerate (none where the
\* enumeration fails)
EnumeratedPaths ==
    UNION {{device[p].get_access_points.v[j] :
                j \in 1..Len(device[p].get_access_points.v)} : p \in WirelessDevices}

\* the records decoded from them
DecodedRecords ==
    {parse_access_point(a).v[1] : a \in {e \in EnumeratedPaths : parse_access_point(e).ok}}

StrengthsOf(ssid) == {r.strength : r \in {d \in DecodedRecords : d.ssid = ssid}}

\* the catalog holds exactly one record for each decoded SSID, of its maximum strength
IsMergeOfDecoded(catalog) ==
    /\ {catalog[k].ssid : k \in 1..Len(catalog)} = {r.ssid : r \in DecodedRecords}
    /\ \A k1, k2 \in 1..Len(catalog) : catalog[k1].ssid = catalog[k2].ssid => k1 = k2
    /\ \A k \in 1..Len(catalog) :
          /\ catalog[k].strength \in StrengthsOf(catalog[k].ssid)
          /\ \A st \in StrengthsOf(catalog[k].ssid) : st <= catalog[k].strength

\* C1: a catalog returned by scan_networks has exactly one record for each
\* SSID among the decoded access points of the wireless devices, and its
\* strength is the maximum strength decoded for that SSID.
C1_OneRecordPerSsidStrongest ==
    (call.op = "scan_networks" /\ result.ok) => IsMergeOfDecoded(result.v)

\* device 1 reports Cafe 40; device 2 reports Cafe 72 and Home 90; the
\* catalog is [Home 90, Cafe 72]
C1_Witness ==
    /\ call.op = "scan_networks"
    /\ Len(nm_devices.v) = 2
    /\ device["/dev/1"].get_access_points = ROk(<<"/ap/1">>)
    /\ device["/dev/2"].get_access_points = ROk(<<"/ap/3", "/ap/5">>)
    /\ result.ok
    /\ [k \in 1..Len(result.v) |-> <<result.v[k].ssid, result.v[k].strength>>]
         = <<(<<from_utf8_lossy(Home), 90>>), (<<from_utf8_lossy(Cafe), 72>>)>>

\* C2: a catalog returned by scan_networks is ordered by strength,
\* non-increasing from each entry to the next.
C2_SortedByStrength ==
    (call.op = "scan_networks" /\ result.ok) =>
        \A k \in 1..(Len(result.v) - 1) : result.v[k].strength >= result.v[k + 1].strength

\* a device lists Work 72 before Home 90 and the catalog has Home 90 first
C2_Witness ==
    /\ call.op = "scan_networks"
    /\ result.ok
    /\ Len(nm_devices.v) = 1
    /\ device["/dev/1"].get_access_points = ROk(<<"/ap/4", "/ap/5">>)
    /\ Len(result.v) = 2
    /\ result.v[1].path = "/ap/5"
    /\ result.v[2].path = "/ap/4"

\* C3: when the enumeration of access points fails on a wireless device,
\* scan_networks still returns a catalog, made of the access points of the
\* other devices (every device type being readable).
C3_FailingDeviceIsolated ==
    (/\ call.op = "scan_networks"
     /\ nm_devices.ok
     /\ \A p \in DOMAIN device : device[p].device_type.ok
     /\ \E p \in WirelessDevices : ~device[p].get_access_points.ok)
    => (result.ok /\ IsMergeOfDecoded(result.v))

\* C4: a failing device-type query does not make scan_networks or
\* get_active_connection return an error.
C4_TypeQueryFailureSwallowed ==
    (/\ call.op \in {"scan_networks", "get_active_connection"}
     /\ nm_devices.ok
     /\ \E p \in DOMAIN device : ~device[p].device_type.ok)
    => result.err # "DeviceType"

(***************************************************************************)
(* Properties of disconnect.                                               *)
(***************************************************************************)
\* the devices whose interface name reads as this name
DevicesNamed(interface) ==
    {p \in DOMAIN device : device[p].interface = ROk(interface)}

DisconnectCalls == {k \in 1..Len(issued) : issued[k].m = "Disconnect"}

\* C5: disconnect with a name that no device in the manager's list carries
\* issues no Disconnect call, and returns the not-found error whenever the
\* manager's list could be read.
C5_UnknownNameNotFound ==
    (call.op = "disconnect" /\ DevicesNamed(call.arg) = {}) =>
        /\ DisconnectCalls = {}
        /\ ~result.ok
        /\ nm_devices.ok => result = Err("NotFound")

\* two devices, one named otherwise and one whose name cannot be read
C5_Witness ==
    /\ call = [op |-> "disconnect", arg |-> "eth-does-not-exist"]
    /\ Len(nm_devices.v) = 2
    /\ device["/dev/1"].interface = ROk("eth0")
    /\ ~device["/dev/2"].interface.ok
    /\ result = Err("NotFound")
    /\ Len(issued) = 3

(***************************************************************************)
(* Properties of get_active_connection.                                    *)
(***************************************************************************)
DeviceAt(i) == device[nm_devices.v[i]]

Decodes(ap_path) ==
    ap_path \in DOMAIN access_point
    /\ access_point[ap_path].ssid.ok /\ access_point[ap_path].strength.ok

\* a wireless device with an active access point that decodes, and a
\* readable interface name
Resolves(d) ==
    /\ d.device_type = ROk(WifiDeviceType)
    /\ d.active_access_point.ok
    /\ d.active_access_point.v # Sentinel
    /\ d.interface.ok
    /\ Decodes(d.active_access_point.v)

NotWireless(d) == d.device_type.ok /\ d.device_type.v # WifiDeviceType

Disconnected(d) ==
    d.device_type = ROk(WifiDeviceType) /\ d.active_access_point = ROk(Sentinel)

\* a wireless device whose active access point is real but does not decode
Undecodable(d) ==
    /\ d.device_type = ROk(WifiDeviceType)
    /\ d.active_access_point.ok
    /\ d.active_access_point.v # Sentinel
    /\ d.interface.ok
    /\ ~Decodes(d.active_access_point.v)

\* every read on the devices before the i-th succeeds and none of them resolves
NoneBefore(i) ==
    \A j \in 1..(i - 1) :
        NotWireless(DeviceAt(j)) \/ Disconnected(DeviceAt(j)) \/ Undecodable(DeviceAt(j))

\* the IPv4 address of the device cannot be resolved
NoAddress(d) ==
    \/ ~d.ip4_config.ok
    \/ d.ip4_config.v = Sentinel
    \/ ~ip4_config[d.ip4_config.v].address_data.ok

\* the returned connection is the one of device d
IsConnectionOf(d) ==
    /\ result.ok
    /\ Len(result.v) = 1
    /\ result.v[1].ssid = from_utf8_lossy(access_point[d.active_access_point.v].ssid.v)
    /\ result.v[1].strength = access_point[d.active_access_point.v].strength.v
    /\ result.v[1].interface = d.interface.v

\* C6: get_active_connection returns none, and no error, when the type of
\* every listed device is readable and the active access point of every
\* wireless device is the sentinel "/".
C6_NoneWhenAllSentinel ==
    (/\ call.op = "get_active_connection"
     /\ nm_devices.ok
     /\ \A p \in DOMAIN device : NotWireless(device[p]) \/ Disconnected(device[p]))
    => result = Ok(<< >>)

\* two wireless devices, both without active access point
C6_Witness ==
    /\ call.op = "get_active_connection"
    /\ Len(nm_devices.v) = 2
    /\ \A p \in DOMAIN device : Disconnected(device[p])
    /\ result = Ok(<< >>)

\* C7: get_active_connection never returns an error of the IPv4 reads; when
\* the IPv4 configuration of the resolving device is the sentinel or
\* unreadable, or its address list is unreadable, the connection is
\* returned with ssid, strength and interface, and an empty ip_address.
C7_AddressFailureGivesEmptyAddress ==
    call.op = "get_active_connection" =>
        /\ result.err \notin {"Ip4Config", "AddressData"}
        /\ \A i \in 1..Len(nm_devices.v) :
              (NoneBefore(i) /\ Resolves(DeviceAt(i)) /\ NoAddress(DeviceAt(i)))
              => (IsConnectionOf(DeviceAt(i)) /\ result.v[1].ip_address = "")

\* the address list of the connected device cannot be read
C7_Witness ==
    /\ call.op = "get_active_connection"
    /\ Len(nm_devices.v) = 1
    /\ Resolves(DeviceAt(1))
    /\ DeviceAt(1).ip4_config = ROk("/ip4/3")
    /\ result.ok
    /\ Len(result.v) = 1
    /\ result.v[1].ip_address = ""
    /\ result.v[1].interface = "wlan0"

\* C8: get_active_connection returns the data of the first device, in the
\* manager's order, whose active access point is real and decodes; devices
\* before it that are not wireless, have the sentinel "/" or do not decode
\* are passed over.
C8_FirstResolvingDeviceWins ==
    call.op = "get_active_connection" =>
        \A i \in 1..Len(nm_devices.v) :
            (NoneBefore(i) /\ Resolves(DeviceAt(i))) => IsConnectionOf(DeviceAt(i))

\* the first device has the sentinel, the second is connected, and the
\* second one's data comes back
C8_Witness ==
    /\ call.op = "get_active_connection"
    /\ Len(nm_devices.v) = 2
    /\ Disconnected(DeviceAt(1))
    /\ Resolves(DeviceAt(2))
    /\ result.ok
    /\ Len(result.v) = 1
    /\ result.v[1].interface = "wlan1"

\* C9: an active access point that does not decode never makes
\* get_active_connection return an error; the device is passed over, and a
\* later device that resolves is returned.
C9_UndecodableDevicePassedOver ==
    call.op = "get_active_connection" =>
        /\ result.err \notin {"Ssid", "Strength", "AccessPoint"}
        /\ \A i \in 1..Len(nm_devices.v) :
              (NoneBefore(i) /\ Resolves(DeviceAt(i)) /\ \E j \in 1..(i - 1) : Undecodable(DeviceAt(j)))
              => IsConnectionOf(DeviceAt(i))
        /\ (NoneBefore(Len(nm_devices.v) + 1) /\ nm_devices.ok) => result = Ok(<< >>)

\* the first device's access point has no readable SSID, the second is connected
C9_Witness ==
    /\ call.op = "get_active_connection"
    /\ Len(nm_devices.v) = 2
    /\ Undecodable(DeviceAt(1))
    /\ Resolves(DeviceAt(2))
    /\ IsConnectionOf(DeviceAt(2))

(***************************************************************************)
(* Properties of parse_access_point.                                       *)
(***************************************************************************)
NonZero(flags) == flags.ok /\ flags.v # 0

\* C10: a decoded access point is secured exactly when its WPA flags or its
\* RSN flags are readable and nonzero.
C10_SecuredIffAFlagIsNonZero ==
    (call.op = "parse_access_point" /\ result.ok) =>
        (result.v[1].is_secured <=>
            (NonZero(access_point[call.arg].wpa_flags) \/ NonZero(access_point[call.arg].rsn_flags)))

\* the WPA flags are unreadable and the RSN flags are set: secured
C10_Witness ==
    /\ call.op = "parse_access_point"
    /\ result.ok
    /\ ~access_point[call.arg].wpa_flags.ok
    /\ access_point[call.arg].rsn_flags = ROk(392)
    /\ result.v[1].is_secured


\* the text of SSID bytes: one character per byte, U+FFFD for a byte that is
\* not valid text
IsLossyTextOf(text, bytes) ==
    /\ Len(text) = Len(bytes)
    /\ \A i \in 1..Len(bytes) :
          (bytes[i] < 128 /\ text[i] = bytes[i]) \/ (bytes[i] >= 128 /\ text[i] = 65533)

\* C11: decoding fails exactly when the SSID or the strength cannot be read;
\* unreadable flags and SSID bytes that are not valid text do not make it
\* fail, the SSID then holding replacement characters.
C11_FailsIffSsidOrStrengthUnreadable ==
    call.op = "parse_access_point" =>
        /\ ~result.ok <=> (~AccessPointAt(call.arg).ssid.ok \/ ~AccessPointAt(call.arg).strength.ok)
        /\ result.ok => IsLossyTextOf(result.v[1].ssid, AccessPointAt(call.arg).ssid.v)

\* invalid SSID bytes and both flags unreadable: decoded, with U+FFFD
C11_Witness ==
    /\ call.op = "parse_access_point"
    /\ AccessPointAt(call.arg).ssid = ROk(<<255, 67>>)
    /\ ~AccessPointAt(call.arg).wpa_flags.ok
    /\ ~AccessPointAt(call.arg).rsn_flags.ok
    /\ result.ok
    /\ result.v[1].ssid = <<65533, 67>>


(***************************************************************************)
(* More properties of scan_networks.                                       *)
(***************************************************************************)
\* the manager's list, every device type and every enumeration can be read
AllDevicesReadable ==
    /\ nm_devices.ok
    /\ \A p \in DOMAIN device :
          /\ device[p].device_type.ok
          /\ device[p].device_type.v = WifiDeviceType => device[p].get_access_points.ok

\* C12: an access point that does not decode never makes scan_networks
\* return an error; with every device readable the catalog is still the
\* merge of all the access points that decode, of every device.
C12_UndecodableEntryDropped ==
    call.op = "scan_networks" =>
        /\ result.err \notin {"Ssid", "Strength"}
        /\ (AllDevicesReadable /\ \E a \in EnumeratedPaths : ~parse_access_point(a).ok)
           => (result.ok /\ IsMergeOfDecoded(result.v))

\* device 1 lists an undecodable access point and then Cafe 40, device 2
\* lists Home 90: both are in the catalog
C12_Witness ==
    /\ call.op = "scan_networks"
    /\ Len(nm_devices.v) = 2
    /\ device["/dev/1"].get_access_points = ROk(<<"/ap/6", "/ap/1">>)
    /\ device["/dev/2"].get_access_points = ROk(<<"/ap/5">>)
    /\ result.ok
    /\ [k \in 1..Len(result.v) |-> result.v[k].path] = <<"/ap/5", "/ap/1">>

\* the wireless devices whose scan request fails
ScanRefused == {p \in WirelessDevices : ~device[p].request_scan.ok}

\* C13: a failing scan request never makes scan_networks return an error;
\* the enumeration of the device's access points follows every scan
\* request, and the device's access points are merged like any other's.
C13_ScanRequestFailureIgnored ==
    call.op = "scan_networks" =>
        /\ result.err # "RequestScan"
        /\ \A k \in 1..Len(issued) :
              issued[k].m = "RequestScan" =>
                  (k < Len(issued) /\ issued[k + 1] = Call("GetAccessPoints", issued[k].p))
        /\ (AllDevicesReadable /\ ScanRefused # {}) => (result.ok /\ IsMergeOfDecoded(result.v))

\* the only device refuses the scan request and lists Cafe 40, which is returned
C13_Witness ==
    /\ call.op = "scan_networks"
    /\ Len(nm_devices.v) = 1
    /\ ~device["/dev/1"].request_scan.ok
    /\ device["/dev/1"].get_access_points = ROk(<<"/ap/1">>)
    /\ result.ok
    /\ Len(result.v) = 1
    /\ result.v[1].path = "/ap/1"


DecodesOk(ap_path) == parse_access_point(ap_path).ok

\* the decoded records in the order scan_networks meets them: device by
\* device in the manager's order, each device's enumeration in its order
RECURSIVE ArrivalsFrom(_)
ArrivalsFrom(i) ==
    IF i > Len(nm_devices.v) THEN << >>
    ELSE LET d == device[nm_devices.v[i]]
             paths == IF d.device_type = ROk(WifiDeviceType)
                      THEN SelectSeq(d.get_access_points.v, DecodesOk)
                      ELSE << >>
         IN [k \in 1..Len(paths) |-> parse_access_point(paths[k]).v[1]] \o ArrivalsFrom(i + 1)

Arrivals == ArrivalsFrom(1)

Least(S) == CHOOSE i \in S : \A k \in S : i <= k

\* when the record with this path arrived
ArrivalOf(ap_path) == Least({i \in 1..Len(Arrivals) : Arrivals[i].path = ap_path})

\* when the first record with this SSID arrived
FirstArrivalOfSsid(ssid) == Least({i \in 1..Len(Arrivals) : Arrivals[i].ssid = ssid})

\* C14: each catalog entry is, in all its fields, the earliest arrived among
\* the decoded records of its SSID and strength: of two records of one SSID
\* and equal strength the later one is discarded.
C14_EqualStrengthKeepsEarlier ==
    (call.op = "scan_networks" /\ result.ok) =>
        \A k \in 1..Len(result.v) :
            LET same == {i \in 1..Len(Arrivals) :
                            /\ Arrivals[i].ssid = result.v[k].ssid
                            /\ Arrivals[i].strength = result.v[k].strength}
            IN same # {} /\ result.v[k] = Arrivals[Least(same)]

\* the secured Cafe 40 arrives before the open Cafe 40 and is the entry
C14_Witness ==
    /\ call.op = "scan_networks"
    /\ Len(nm_devices.v) = 1
    /\ device["/dev/1"].get_access_points = ROk(<<"/ap/2", "/ap/1">>)
    /\ result.ok
    /\ Len(result.v) = 1
    /\ result.v[1].path = "/ap/2"
    /\ result.v[1].is_secured

\* C15 as claimed: two catalog entries of equal strength are in the order in
\* which these two records themselves arrived.
C15_TiesInSurvivorArrivalOrder ==
    (call.op = "scan_networks" /\ result.ok) =>
        \A k1, k2 \in 1..Len(result.v) :
            (k1 < k2 /\ result.v[k1].strength = result.v[k2].strength)
            => ArrivalOf(result.v[k1].path) < ArrivalOf(result.v[k2].path)

\* C15 as amended: two catalog entries of equal strength are in the order in
\* which their SSIDs first arrived; a record that replaced a weaker one of
\* its SSID stands where that one stood.
C15_TiesInFirstArrivalOrderOfSsid ==
    (call.op = "scan_networks" /\ result.ok) =>
        \A k1, k2 \in 1..Len(result.v) :
            (k1 < k2 /\ result.v[k1].strength = result.v[k2].strength)
            => FirstArrivalOfSsid(result.v[k1].ssid) < FirstArrivalOfSsid(result.v[k2].ssid)

\* Cafe 40, Work 72, Cafe 72 arrive in this order: Cafe 72 is listed before
\* Work 72 although it arrived after it
C15_Witness ==
    /\ call.op = "scan_networks"
    /\ Len(nm_devices.v) = 1
    /\ device["/dev/1"].get_access_points = ROk(<<"/ap/1", "/ap/4", "/ap/3">>)
    /\ result.ok
    /\ [k \in 1..Len(result.v) |-> result.v[k].path] = <<"/ap/3", "/ap/4">>


(***************************************************************************)
(* More properties of get_active_connection.                               *)
(***************************************************************************)
\* C16: get_active_connection issues no remote call on the sentinel path
\* "/": no access-point property read and no address-list read.
C16_SentinelNeverDereferenced ==
    call.op = "get_active_connection" =>
        \A k \in 1..Len(issued) :
            issued[k].p = Sentinel =>
                issued[k].m \notin {"Ssid", "Strength", "WpaFlags", "RsnFlags", "AddressData"}

\* the first device has "/" as active access point, the second is
\* connected and has "/" as IPv4 configuration
C16_Witness ==
    /\ call.op = "get_active_connection"
    /\ Len(nm_devices.v) = 2
    /\ Disconnected(DeviceAt(1))
    /\ Resolves(DeviceAt(2))
    /\ DeviceAt(2).ip4_config = ROk(Sentinel)
    /\ IsConnectionOf(DeviceAt(2))
    /\ issued[Len(issued)] = Call("Ip4Config", "/dev/2")


(***************************************************************************)
(* Properties of connect_to_network.                                       *)
(***************************************************************************)
\* C17: connect_to_network returns an error exactly when the helper could
\* not be launched, whatever a launched helper's exit status and output.
C17_ErrorIffLaunchFails ==
    call.op = "connect_to_network" => (~result.ok <=> nmcli.launch # "ok")

\* the helper ran, exited with status 10 and an error text: success
C17_Witness ==
    /\ call.op = "connect_to_network"
    /\ nmcli = HelperRun("ok", 10, "Error")
    /\ result.ok

(***************************************************************************)
(* More properties of disconnect.                                          *)
(***************************************************************************)
\* the first device, in the manager's order, whose interface name is this
FirstNamed(interface) ==
    {i \in 1..Len(nm_devices.v) :
        /\ DeviceAt(i).interface = ROk(interface)
        /\ \A j \in 1..(i - 1) : DeviceAt(j).interface # ROk(interface)}

\* C18: disconnect never asks a device its type, and the first device of
\* the manager's list named like the argument receives the Disconnect call,
\* whatever its type.
C18_AnyDeviceTypeDisconnected ==
    call.op = "disconnect" =>
        /\ \A k \in 1..Len(issued) : issued[k].m # "DeviceType"
        /\ \A i \in FirstNamed(call.arg) :
              \E k \in 1..Len(issued) : issued[k] = Call("Disconnect", nm_devices.v[i])

\* a wired device named eth0 is disconnected
C18_Witness ==
    /\ call = [op |-> "disconnect", arg |-> "eth0"]
    /\ Len(nm_devices.v) = 1
    /\ DeviceAt(1).device_type = ROk(1)
    /\ DeviceAt(1).interface = ROk("eth0")
    /\ issued[Len(issued)] = Call("Disconnect", "/dev/1")
    /\ result.ok

\* C20: an unreadable active-access-point reference or interface name of one
\* wireless device does not make get_active_connection return an error.
C20_DeviceReadFailureSkipped ==
    call.op = "get_active_connection" =>
        result.err \notin {"ActiveAccessPoint", "Interface"}


(***************************************************************************)
(* Properties of the widget's tasks.                                       *)
(***************************************************************************)
\* a scan task is inside client.scan_networks()
ScanInFlight == \E t \in BagToSet(tasks) : t.op = "scan_networks" /\ t.pc = "call"

\* the tasks of the other operations that were started and have not yet
\* begun their client operation
StartedNotCalling ==
    {u \in BagToSet(tasks) :
        /\ u.op \in {"connect_to_network", "disconnect", "get_active_connection"}
        /\ u.pc = "lock"}

\* C19: while a scan is in flight, a connect, a disconnect or an
\* active-connection query the widget has started can take its next step,
\* the client operation, without waiting for the scan to complete.
C19_OperationsProceedDuringScan ==
    ScanInFlight => \A u \in StartedNotCalling : ENABLED Lock(u)


(***************************************************************************)
(* The catalog as a function of the records that arrive.                   *)
(***************************************************************************)
\* the merge loop and the sort of scan_networks over decoded records
RECURSIVE MergedFrom(_, _, _)
MergedFrom(records, j, all_access_points) ==
    IF j > Len(records) THEN all_access_points
    ELSE MergedFrom(records, j + 1, Merge(all_access_points, records[j]))

CatalogOf(records) == sort_by(MergedFrom(records, 1, << >>))

PairsOf(catalog) == {<<catalog[k].ssid, catalog[k].strength>> : k \in 1..Len(catalog)}

ArrivalOrders(n) ==
    {f \in [1..n -> 1..n] : \A a, b \in 1..n : f[a] = f[b] => a = b}

Permuted(records, f) == [k \in 1..Len(records) |-> records[f[k]]]

\* C21: the (ssid, strength) pairs of the catalog are those of the catalog
\* made from the same records arriving in any other order, and no arrived
\* record is stronger than the catalog entry of its SSID.
C21_PairsIndependentOfArrivalOrder ==
    (call.op = "scan_networks" /\ result.ok) =>
        LET records == Arrivals
            pairs == PairsOf(result.v)
        IN /\ \A f \in ArrivalOrders(Len(records)) :
                 PairsOf(CatalogOf(Permuted(records, f))) = pairs
           /\ \A i \in 1..Len(records) : \A k \in 1..Len(result.v) :
                 result.v[k].ssid = records[i].ssid => records[i].strength <= result.v[k].strength

\* Cafe 72 arrives before Cafe 40 and stays
C21_Witness ==
    /\ call.op = "scan_networks"
    /\ Len(nm_devices.v) = 1
    /\ device["/dev/1"].get_access_points = ROk(<<"/ap/3", "/ap/1">>)
    /\ result.ok
    /\ Len(result.v) = 1
    /\ result.v[1].path = "/ap/3"
    /\ result.v[1].strength = 72


\* C22: every catalog entry is, in ssid, strength, is_secured and path, one
\* of the decoded records that arrived, never a mix of two of them.
C22_EntryIsOneWholeRecord ==
    (call.op = "scan_networks" /\ result.ok) =>
        \A k \in 1..Len(result.v) :
            \E i \in 1..Len(Arrivals) :
                /\ result.v[k].ssid = Arrivals[i].ssid
                /\ result.v[k].strength = Arrivals[i].strength
                /\ result.v[k].is_secured = Arrivals[i].is_secured
                /\ result.v[k].path = Arrivals[i].path

\* the open Cafe 40 is replaced by the secured Cafe 72: the entry has the
\* strength, the security and the path of the second record
C22_Witness ==
    /\ call.op = "scan_networks"
    /\ Len(nm_devices.v) = 1
    /\ device["/dev/1"].get_access_points = ROk(<<"/ap/1", "/ap/3">>)
    /\ result.ok
    /\ Len(result.v) = 1
    /\ result.v[1] = parse_access_point("/ap/3").v[1]
    /\ result.v[1].is_secured
    /\ ~parse_access_point("/ap/1").v[1].is_secured


(***************************************************************************)
(* The order of the remote calls of scan_networks.                         *)
(***************************************************************************)
DeviceCalls == {"DeviceType", "RequestScan", "GetAccessPoints"}

\* the place, in the manager's list, of the device a call is made for: the
\* device itself, or the one that lists the access point; 0 for the manager
DeviceIndexOf(c) ==
    IF c.m = "GetDevices" THEN 0
    ELSE IF c.m \in DeviceCalls
    THEN CHOOSE i \in 1..Len(nm_devices.v) : nm_devices.v[i] = c.p
    ELSE CHOOSE i \in 1..Len(nm_devices.v) :
            \E j \in 1..Len(DeviceAt(i).get_access_points.v) :
                DeviceAt(i).get_access_points.v[j] = c.p

\* C23: in scan_networks the enumeration of a device's access points comes
\* right after the scan request on that device, an access point is decoded
\* after the enumeration that listed it, and the calls made for one device
\* all come before the calls made for the next.
C23_CallsOrderedDeviceByDevice ==
    call.op = "scan_networks" =>
        /\ \A k \in 1..Len(issued) :
              issued[k].m = "GetAccessPoints" =>
                  (k > 1 /\ issued[k - 1] = Call("RequestScan", issued[k].p))
        /\ \A k \in 1..Len(issued) :
              issued[k].m \notin DeviceCalls \cup {"GetDevices"} =>
                  \E j \in 1..(k - 1) :
                      issued[j] = Call("GetAccessPoints", nm_devices.v[DeviceIndexOf(issued[k])])
        /\ \A k1, k2 \in 1..Len(issued) :
              k1 < k2 => DeviceIndexOf(issued[k1]) <= DeviceIndexOf(issued[k2])

\* two wireless devices with one access point each: the second device's
\* type is asked after the first device's access point has been decoded
C23_Witness ==
    /\ call.op = "scan_networks"
    /\ Len(nm_devices.v) = 2
    /\ device["/dev/1"].get_access_points = ROk(<<"/ap/1">>)
    /\ device["/dev/2"].get_access_points = ROk(<<"/ap/5">>)
    /\ result.ok
    /\ Len(issued) = 15
    /\ issued[8] = Call("RsnFlags", "/ap/1")
    /\ issued[9] = Call("DeviceType", "/dev/2")


(***************************************************************************)
(* Devices that are not wireless.                                          *)
(***************************************************************************)
\* the devices whose type reads as something else than WiFi
OtherDevices == {p \in DOMAIN device : NotWireless(device[p])}

WirelessOnlyCalls == {"RequestScan", "GetAccessPoints", "ActiveAccessPoint", "Interface", "Ip4Config"}

\* C24: scan_networks and get_active_connection ask a device that is not
\* wireless nothing but its type, and a returned error never stems from a
\* call on such a device.
C24_OtherDeviceTypesSkipped ==
    call.op \in {"scan_networks", "get_active_connection"} =>
        /\ \A k \in 1..Len(issued) :
              issued[k].p \in OtherDevices => issued[k].m = "DeviceType"
        /\ ~result.ok => issued[Len(issued)].p \notin OtherDevices
        /\ (nm_devices.ok /\ \A p \in WirelessDevices : device[p].get_access_points.ok)
           => result.ok

\* an Ethernet device whose wireless members cannot be read comes first: the
\* scan returns the second device's access point
C24_Witness ==
    /\ call.op = "scan_networks"
    /\ Len(nm_devices.v) = 2
    /\ device["/dev/1"].device_type = ROk(1)
    /\ ~device["/dev/1"].get_access_points.ok
    /\ device["/dev/2"].get_access_points = ROk(<<"/ap/5">>)
    /\ result.ok
    /\ Len(result.v) = 1
    /\ issued[3] = Call("DeviceType", "/dev/2")

\* the same device list under get_active_connection: the connection of the
\* second device is returned
C24_WitnessActive ==
    /\ call.op = "get_active_connection"
    /\ Len(nm_devices.v) = 2
    /\ device["/dev/1"].device_type = ROk(14)
    /\ ~device["/dev/1"].active_access_point.ok
    /\ result.ok
    /\ Len(result.v) = 1
    /\ result.v[1].interface = "wlan0"


(***************************************************************************)
(* The address of the returned connection.                                 *)
(***************************************************************************)
\* the entry has an "address" field that is a string
HasTextAddress(entry) == "address" \in DOMAIN entry /\ entry["address"].sig = "s"

\* C25: when the address list of the resolving device can be read, the
\* returned ip_address is the textual "address" of the list's first entry,
\* and it is empty when the list is empty or its first entry has no textual
\* "address", whatever the later entries hold.
C25_AddressOfFirstEntryOnly ==
    call.op = "get_active_connection" =>
        \A i \in 1..Len(nm_devices.v) :
            (NoneBefore(i) /\ Resolves(DeviceAt(i)) /\ ~NoAddress(DeviceAt(i))) =>
                LET entries == ip4_config[DeviceAt(i).ip4_config.v].address_data.v IN
                /\ IsConnectionOf(DeviceAt(i))
                /\ (entries # << >> /\ HasTextAddress(entries[1]))
                   => result.v[1].ip_address = entries[1]["address"].str
                /\ (entries = << >> \/ ~HasTextAddress(entries[1]))
                   => result.v[1].ip_address = ""

\* the first entry has no address and the second has 10.0.0.9: the
\* connection is returned with an empty address
C25_Witness ==
    /\ call.op = "get_active_connection"
    /\ Len(nm_devices.v) = 1
    /\ Resolves(DeviceAt(1))
    /\ DeviceAt(1).ip4_config = ROk("/ip4/4")
    /\ HasTextAddress(ip4_config["/ip4/4"].address_data.v[2])
    /\ result.ok
    /\ Len(result.v) = 1
    /\ result.v[1].ip_address = ""


(***************************************************************************)
(* The returned connection against the states of the service.              *)
(***************************************************************************)
\* a call has returned a connection
ReturnedConnection ==
    /\ call.op = "get_active_connection"
    /\ in_progress.reading = 0
    /\ in_progress.reads # << >>
    /\ result.ok
    /\ Len(result.v) = 1

\* C26: the connection get_active_connection returns is, in ssid, strength,
\* interface and ip_address together, what the service held at one moment
\* between the start of the call and its return.
C26_ReturnsOneMomentOfTheService ==
    ReturnedConnection => result \in in_progress.moments


(***************************************************************************)
(* The search of disconnect.                                               *)
(***************************************************************************)
\* the places of the devices whose interface name cannot be read
Unnamed == {i \in 1..Len(nm_devices.v) : ~DeviceAt(i).interface.ok}

\* C27: a device whose interface name cannot be read does not end the
\* search of disconnect: the first device after it named like the argument
\* receives the Disconnect call, and without any such device the result is
\* the not-found error.
C27_UnreadableNamePassedOver ==
    (call.op = "disconnect" /\ nm_devices.ok /\ Unnamed # {}) =>
        /\ \A i \in FirstNamed(call.arg) :
              issued[Len(issued)] = Call("Disconnect", nm_devices.v[i])
        /\ FirstNamed(call.arg) = {} => result = Err("NotFound")
        /\ \A i \in Unnamed :
              (\A j \in 1..(i - 1) : DeviceAt(j).interface # ROk(call.arg))
              => \E k \in 1..Len(issued) : issued[k] = Call("Interface", nm_devices.v[i])

\* the name of the first device cannot be read, the second is wlan0 and is
\* disconnected
C27_Witness ==
    /\ call = [op |-> "disconnect", arg |-> "wlan0"]
    /\ Len(nm_devices.v) = 2
    /\ ~DeviceAt(1).interface.ok
    /\ DeviceAt(2).interface = ROk("wlan0")
    /\ issued[Len(issued)] = Call("Disconnect", "/dev/2")
    /\ result.ok

\* C28: disconnect issues at most one Disconnect call; it is the last call
\* issued, made on the first device named like the argument, and its
\* outcome is what disconnect returns.
C28_OneDisconnectCallDecides ==
    call.op = "disconnect" =>
        /\ Cardinality(DisconnectCalls) <= 1
        /\ \A k \in DisconnectCalls :
              /\ k = Len(issued)
              /\ \E i \in FirstNamed(call.arg) : issued[k].p = nm_devices.v[i]
              /\ result.ok <=> device[issued[k].p].disconnect.ok
              /\ ~result.ok => result = Err("Disconnect")

\* two devices named wlan0; the first refuses to disconnect: the error is
\* returned and the second is not asked
C28_Witness ==
    /\ call = [op |-> "disconnect", arg |-> "wlan0"]
    /\ Len(nm_devices.v) = 2
    /\ DeviceAt(1).interface = ROk("wlan0")
    /\ DeviceAt(2).interface = ROk("wlan0")
    /\ ~DeviceAt(1).disconnect.ok
    /\ DeviceAt(2).disconnect.ok
    /\ result = Err("Disconnect")
    /\ DisconnectCalls = {Len(issued)}
    /\ issued[Len(issued)].p = "/dev/1"


(***************************************************************************)
(* The scans of the widget.                                                *)
(***************************************************************************)
\* how many scan tasks are alive
ScanTasksAlive ==
    BagCardinality([t \in {x \in BagToSet(tasks) : x.op = "scan_networks"} |-> tasks[t]])

\* how many NetworksScanned inputs wait in the queue
ScansReported == Cardinality({k \in 1..Len(inbox) : inbox[k].msg = "NetworksScanned"})

\* C29: at most one scan task is alive at any time, and while is_scanning
\* is true no step adds one, whatever inputs are handled.
C29_OneScanAtATime ==
    /\ [](ScanTasksAlive <= 1)
    /\ [][wifi.is_scanning => ScanTasksAlive' <= ScanTasksAlive]_vars

\* a ScanNetworks input is next in the queue while a scan is inside its
\* client call and a further task could be spawned
C29_Witness ==
    /\ wifi.is_scanning
    /\ ScanInFlight
    /\ Receives("ScanNetworks")
    /\ CanSpawn

\* C30: while is_scanning is true the end of the scan is under way: a scan
\* task is alive that will send NetworksScanned, or NetworksScanned waits in
\* the queue.
C30_StartedScanHasItsEndPending ==
    wifi.is_scanning => (ScanTasksAlive > 0 \/ ScansReported > 0)

====
